---- MODULE Spec2Model ----
(***************************************************************************)
(* Finance Hub: the scoring and allocation services of                     *)
(* services/bank_analysis.py and services/budget_planner.py.               *)
(*                                                                         *)
(* Number conventions.  Python floats are modelled as scaled integers:     *)
(*   prices and money amounts          in cents (1/100 of a rupee);        *)
(*   percentages and ratios            in 1/100 of a unit;                 *)
(*   health scores                     in 1/100 of a point;                *)
(*   market capitalisation             in units of 10^9.                   *)
(* A Python value is a record [t, v]: t = "num" is a finite int/float with *)
(* scaled value v, "nan"/"inf"/"ninf" are the float specials, "str" is the *)
(* decimal string of v, and "NA" is the string 'N/A'.                      *)
(***************************************************************************)
EXTENDS Integers, Sequences, FiniteSets, TLC

VARIABLES
    bank_name,        \* argument of get_bank_stock_data
    ticker,           \* what the market-data supplier answers for the symbol
    bank_data,        \* result of get_bank_stock_data
    health_analysis,  \* result of calculate_bank_health_score
    user_data,        \* argument of the budget planner's calls
    budget,           \* result of create_personalized_budget
    fin_health,       \* result of _calculate_financial_health_score
    supplied,         \* the supplier's answers to the roster fetches made so far
    sector_data,      \* get_banking_sector_overview: bank name -> its entry
    total_score,      \* get_banking_sector_overview: running sum of scores
    bank_count,       \* get_banking_sector_overview: number of banks scored
    sector_overview,  \* result of get_banking_sector_overview
    warning_indicators, \* result of get_early_warning_indicators
    route_overview,   \* /bank-analysis: the overview the route itself obtained
    services,         \* fields and rosters of the two shared service objects
    call_log,         \* the calls served by the shared objects, with results
    session,          \* the Flask session of one browser: its chat_history key
    chat_log,         \* the /chat requests of the session, with their answers
    pc                \* position of the request being served

vars == <<bank_name, ticker, bank_data, health_analysis, user_data, budget,
          fin_health, supplied, sector_data, total_score, bank_count,
          sector_overview, warning_indicators, route_overview, services,
          call_log, session, chat_log, pc>>

None == [none |-> TRUE]

----------------------------------------------------------------------------
(* Python values *)

Num(x) == [t |-> "num", v |-> x]
NaN    == [t |-> "nan", v |-> 0]
PosInf == [t |-> "inf", v |-> 0]
NegInf == [t |-> "ninf", v |-> 0]
NA     == [t |-> "NA", v |-> 0]
Str(x) == [t |-> "str", v |-> x.v]

\* isinstance(x, (int, float))
IsNumber(x) == x.t \in {"num", "nan", "inf", "ninf"}

\* a > b on Python floats: every comparison with nan is False
PyGt(a, b) ==
    CASE a.t = "nan" \/ b.t = "nan" -> FALSE
      [] a.t = "inf"  -> b.t # "inf"
      [] a.t = "ninf" -> FALSE
      [] b.t = "inf"  -> FALSE
      [] b.t = "ninf" -> TRUE
      [] OTHER        -> a.v > b.v

PyLt(a, b) == PyGt(b, a)

\* a <= b on Python floats
PyLe(a, b) ==
    CASE a.t = "nan" \/ b.t = "nan" -> FALSE
      [] OTHER -> ~PyGt(a, b)

Min(a, b) == IF a < b THEN a ELSE b
Abs(x) == IF x < 0 THEN -x ELSE x

----------------------------------------------------------------------------
(* BankHealthAnalyzer.calculate_bank_health_score *)

Scale == 100

\* thresholds of the rubric, in model units
LargeCap == 100   \* 100000000000 = 100 * 10^9
MidCap   == 10    \* 10000000000  =  10 * 10^9

\* Price Performance: min(20, abs(pct) * 2) when pct > 0
PricePoints(d) ==
    IF PyGt(d.price_change_pct, Num(0))
    THEN IF d.price_change_pct.t = "inf" THEN 20 * Scale
         ELSE Min(20 * Scale, Abs(d.price_change_pct.v) * 2)
    ELSE 0
PriceNote(d) ==
    IF PyGt(d.price_change_pct, Num(0))
    THEN "Positive price performance" ELSE "Negative price performance"

\* the volatility factor with its two limits included in the better tier
VolatilityPoints_Inclusive(d) ==
    IF PyLe(d.volatility, Num(20 * Scale)) THEN 15 * Scale
    ELSE IF PyLe(d.volatility, Num(30 * Scale)) THEN 10 * Scale
    ELSE 0

VolatilityPoints(d) ==
    IF PyLt(d.volatility, Num(20 * Scale)) THEN 15 * Scale
    ELSE IF PyLt(d.volatility, Num(30 * Scale)) THEN 10 * Scale
    ELSE 0
VolatilityNote(d) ==
    IF PyLt(d.volatility, Num(20 * Scale)) THEN "Low volatility"
    ELSE IF PyLt(d.volatility, Num(30 * Scale)) THEN "Moderate volatility"
    ELSE "High volatility"

MAPoints(d) ==
    IF PyGt(d.current_price, d.ma_20) /\ PyGt(d.ma_20, d.ma_50) THEN 15 * Scale
    ELSE IF PyGt(d.current_price, d.ma_20) THEN 10 * Scale
    ELSE 0
MANote(d) ==
    IF PyGt(d.current_price, d.ma_20) /\ PyGt(d.ma_20, d.ma_50) THEN "Strong uptrend"
    ELSE IF PyGt(d.current_price, d.ma_20) THEN "Moderate trend"
    ELSE "Downtrend"

pe_score(d) ==
    IF IsNumber(d.pe_ratio)
    THEN IF PyLe(Num(10 * Scale), d.pe_ratio) /\ PyLe(d.pe_ratio, Num(20 * Scale))
         THEN 10 * Scale
         ELSE IF PyLt(d.pe_ratio, Num(10 * Scale)) THEN 15 * Scale
         ELSE 0
    ELSE 0
PENote(d) ==
    IF IsNumber(d.pe_ratio)
    THEN IF PyLe(Num(10 * Scale), d.pe_ratio) /\ PyLe(d.pe_ratio, Num(20 * Scale))
         THEN <<"Reasonable P/E ratio">>
         ELSE IF PyLt(d.pe_ratio, Num(10 * Scale)) THEN <<"Undervalued P/E ratio">>
         ELSE <<"High P/E ratio">>
    ELSE << >>

pb_score(d) ==
    IF IsNumber(d.pb_ratio) /\ PyLe(d.pb_ratio, Num(2 * Scale)) THEN 10 * Scale ELSE 0
PBNote(d) ==
    IF IsNumber(d.pb_ratio)
    THEN IF PyLe(d.pb_ratio, Num(2 * Scale))
         THEN <<"Good P/B ratio">> ELSE <<"High P/B ratio">>
    ELSE << >>

DividendPoints(d) ==
    IF PyGt(d.dividend_yield, Num(3 * Scale)) THEN 10 * Scale
    ELSE IF PyGt(d.dividend_yield, Num(1 * Scale)) THEN 5 * Scale
    ELSE 0
DividendNote(d) ==
    IF PyGt(d.dividend_yield, Num(3 * Scale)) THEN "High dividend yield"
    ELSE IF PyGt(d.dividend_yield, Num(1 * Scale)) THEN "Moderate dividend yield"
    ELSE "Low dividend yield"

\* current_volume > avg_volume * 1.5  <=>  2 * current_volume > 3 * avg_volume
VolumePoints(d) ==
    IF 2 * d.volume > 3 * d.avg_volume THEN 10 * Scale
    ELSE IF d.volume > d.avg_volume THEN 5 * Scale
    ELSE 0
VolumeNote(d) ==
    IF 2 * d.volume > 3 * d.avg_volume THEN "High trading volume"
    ELSE IF d.volume > d.avg_volume THEN "Above average trading volume"
    ELSE "Below average trading volume"

MarketCapPoints(d) ==
    IF IsNumber(d.market_cap) /\ PyGt(d.market_cap, Num(LargeCap)) THEN 10 * Scale
    ELSE IF IsNumber(d.market_cap) /\ PyGt(d.market_cap, Num(MidCap)) THEN 5 * Scale
    ELSE 0
MarketCapNote(d) ==
    IF IsNumber(d.market_cap) /\ PyGt(d.market_cap, Num(LargeCap)) THEN "Large-cap bank"
    ELSE IF IsNumber(d.market_cap) /\ PyGt(d.market_cap, Num(MidCap)) THEN "Mid-cap bank"
    ELSE "Small-cap bank"

BankScore(d) ==
    PricePoints(d) + VolatilityPoints(d) + MAPoints(d) + pe_score(d) + pb_score(d)
    + DividendPoints(d) + VolumePoints(d) + MarketCapPoints(d)

BankAnalysis(d) ==
    <<PriceNote(d), VolatilityNote(d), MANote(d)>> \o PENote(d) \o PBNote(d)
    \o <<DividendNote(d), VolumeNote(d), MarketCapNote(d)>>

\* Determine health status
BankStatus(score) ==
    IF score >= 80 * Scale THEN "Excellent"
    ELSE IF score >= 60 * Scale THEN "Good"
    ELSE IF score >= 40 * Scale THEN "Fair"
    ELSE "Poor"

\* the recommendation bands with the top one open at 80
_get_recommendation_Open80(score) ==
    IF score > 80 * Scale THEN "Strong Buy"
    ELSE IF score >= 60 * Scale THEN "Buy"
    ELSE IF score >= 40 * Scale THEN "Hold"
    ELSE "Sell"

_get_recommendation(score) ==
    IF score >= 80 * Scale THEN "Strong Buy"
    ELSE IF score >= 60 * Scale THEN "Buy"
    ELSE IF score >= 40 * Scale THEN "Hold"
    ELSE "Sell"

IsError(r) == "error" \in DOMAIN r

\* the scorer answering an error record with a message of its own
calculate_bank_health_score_OwnMessage(d) ==
    IF IsError(d) THEN [error |-> [msg |-> "Failed to score", bank |-> d.error.bank]]
    ELSE [health_score   |-> BankScore(d),
          max_score      |-> 100 * Scale,
          status         |-> BankStatus(BankScore(d)),
          analysis       |-> BankAnalysis(d),
          recommendation |-> _get_recommendation(BankScore(d))]

calculate_bank_health_score(d) ==
    IF IsError(d) THEN [error |-> d.error]
    ELSE [health_score   |-> BankScore(d),
          max_score      |-> 100 * Scale,
          status         |-> BankStatus(BankScore(d)),
          analysis       |-> BankAnalysis(d),
          recommendation |-> _get_recommendation(BankScore(d))]

----------------------------------------------------------------------------
(* The market-data supplier (yfinance): ticker.history(period="1y") and    *)
(* ticker.info.  A response is [raises, n, shape, info]: the fetch raises, *)
(* or it yields a series of n daily bars of the given shape and the        *)
(* metadata record info.  A metadata field that the supplier does not      *)
(* provide has t = "absent".                                               *)

MaxBars == 51

Absent == [t |-> "absent", v |-> 0]

Shapes == {"flat", "up249", "up250", "choppy", "zeroprev"}

\* close of bar i (1..n) of a series, in cents:
\*   flat      every close 100.00
\*   up249     100.00, the last bar 102.49 (+2.49 %)
\*   up250     100.00, the last bar 102.50 (+2.50 %)
\*   choppy    alternating 100.00 / 90.00, the last bar 90.00
\*   zeroprev  100.00, the bar before the last one 0.00
CloseOf(shape, n, i) ==
    CASE shape = "flat"     -> 10000
      [] shape = "up249"    -> IF i = n THEN 10249 ELSE 10000
      [] shape = "up250"    -> IF i = n THEN 10250 ELSE 10000
      [] shape = "choppy"   -> IF (n - i) % 2 = 0 THEN 9000 ELSE 10000
      [] shape = "zeroprev" -> IF i = n - 1 THEN 0 ELSE 10000

\* volume of bar i: two of the shapes end on a volume spike
VolumeOf(shape, n, i) ==
    CASE shape = "up250"  -> IF i = n THEN 2000 ELSE 1000
      [] shape = "choppy" -> IF i = n THEN 1200 ELSE 1000
      [] OTHER            -> 1000

History(t) ==
    [Close  |-> [i \in 1..t.n |-> CloseOf(t.shape, t.n, i)],
     High   |-> [i \in 1..t.n |-> CloseOf(t.shape, t.n, i) + 50],
     Low    |-> [i \in 1..t.n |-> CloseOf(t.shape, t.n, i) - 50],
     Volume |-> [i \in 1..t.n |-> VolumeOf(t.shape, t.n, i)]]

\* returns.std() * np.sqrt(252) * 100 is computed by pandas/numpy; its value
\* is part of the supplier's answer (in 1/100 of a percent).  A standard
\* deviation needs two returns, hence three bars; a return over a zero close
\* is not finite.
AnnualVolatility(t) ==
    IF t.n < 3 \/ t.shape = "zeroprev" THEN NaN
    ELSE CASE t.shape = "flat"   -> Num(0)
           [] t.shape = "up249"  -> Num(558)
           [] t.shape = "up250"  -> Num(560)
           [] t.shape = "choppy" -> Num(16700)

Infos ==
    [marketCap     : {Absent, Num(5), Num(50), Num(200)},
     trailingPE    : {Absent, Num(800), Num(1500)},
     priceToBook   : {Absent, Num(150)},
     dividendYield : {Absent, Num(200), Num(400)}]

NoInfo == [marketCap |-> Absent, trailingPE |-> Absent,
           priceToBook |-> Absent, dividendYield |-> Absent]

SupplierResponses ==
    [raises : {FALSE}, n : 0..MaxBars, shape : Shapes, info : Infos]
    \cup {[raises |-> TRUE, n |-> 0, shape |-> "flat", info |-> NoInfo]}

----------------------------------------------------------------------------
(* BankHealthAnalyzer.get_bank_stock_data *)

INDIAN_BANKS ==
    [b \in {"HDFC Bank", "ICICI Bank", "State Bank of India", "Kotak Mahindra Bank",
            "Axis Bank", "Bank of Baroda", "Punjab National Bank", "Canara Bank",
            "Union Bank", "IDBI Bank"} |->
        CASE b = "HDFC Bank"            -> "HDFCBANK.NS"
          [] b = "ICICI Bank"           -> "ICICIBANK.NS"
          [] b = "State Bank of India"  -> "SBIN.NS"
          [] b = "Kotak Mahindra Bank"  -> "KOTAKBANK.NS"
          [] b = "Axis Bank"            -> "AXISBANK.NS"
          [] b = "Bank of Baroda"       -> "BANKBARODA.NS"
          [] b = "Punjab National Bank" -> "PNB.NS"
          [] b = "Canara Bank"          -> "CANBK.NS"
          [] b = "Union Bank"           -> "UNIONBANK.NS"
          [] b = "IDBI Bank"            -> "IDBI.NS"]

\* quotient of a by b > 0 rounded to the nearest integer, ties to even:
\* round(x, 2) on a value kept in 1/100 units
RoundDiv(a, b) ==
    LET q == a \div b
        r == a % b
    IN  IF 2 * r > b THEN q + 1
        ELSE IF 2 * r < b THEN q
        ELSE IF q % 2 = 0 THEN q ELSE q + 1

\* int(x) on a quotient: truncation towards zero
TruncDiv(a, b) == IF a >= 0 THEN a \div b ELSE -((-a) \div b)

RECURSIVE SumTail(_, _)
\* sum of the last k entries of sequence s (k <= Len(s))
SumTail(s, k) == IF k = 0 THEN 0 ELSE s[Len(s) - k + 1] + SumTail(s, k - 1)

RECURSIVE SeqMax(_)
SeqMax(s) ==
    IF Len(s) = 1 THEN s[1]
    ELSE LET m == SeqMax(Tail(s)) IN IF s[1] > m THEN s[1] ELSE m

RECURSIVE SeqMin(_)
SeqMin(s) ==
    IF Len(s) = 1 THEN s[1]
    ELSE LET m == SeqMin(Tail(s)) IN IF s[1] < m THEN s[1] ELSE m

\* series.rolling(window=w).mean().iloc[-1]: min_periods defaults to the
\* window, so the mean of a series shorter than w is NaN.  The result is
\* the pair <<sum, w>> of the exact mean, or NaN.
RollingMeanLast(s, w) ==
    IF Len(s) < w THEN NaN ELSE [t |-> "num", v |-> SumTail(s, w), d |-> w]

\* round(mean, 2) of a rolling mean of cents
RoundMean(m) == IF m.t = "nan" THEN NaN ELSE Num(RoundDiv(m.v, m.d))

\* (price_change / previous close) * 100 on numpy floats, rounded to 2
\* decimals, in 1/100 of a percent: division by zero yields inf or nan
PriceChangePct(last, prev) ==
    IF prev = 0
    THEN IF last > 0 THEN PosInf ELSE IF last < 0 THEN NegInf ELSE NaN
    ELSE Num(RoundDiv((last - prev) * 100 * Scale, prev))

ErrNotFound(b) == [error |-> [msg |-> "not found in database", bank |-> b]]
ErrNoData(b)   == [error |-> [msg |-> "No data available", bank |-> b]]
ErrFailed(b)   == [error |-> [msg |-> "Failed to fetch data", bank |-> b]]

Truthy(x) == x.t # "absent" /\ ~(x.t = "num" /\ x.v = 0)

get_bank_stock_data(b, t) ==
    IF b \notin DOMAIN INDIAN_BANKS THEN ErrNotFound(b)
    ELSE IF t.raises THEN ErrFailed(b)
    ELSE LET hist_data == History(t)
             info      == t.info
             n         == t.n
         IN
         IF n = 0 THEN ErrNoData(b)
         \* hist_data['Close'].iloc[-2] raises IndexError on a one-bar series
         ELSE IF n < 2 THEN ErrFailed(b)
         \* int(nan) raises ValueError when the volume window is not full
         ELSE IF RollingMeanLast(hist_data.Volume, 20).t = "nan" THEN ErrFailed(b)
         ELSE
           LET close == hist_data.Close
               vm    == RollingMeanLast(hist_data.Volume, 20)
           IN [bank_name        |-> b,
               symbol           |-> INDIAN_BANKS[b],
               current_price    |-> Num(close[n]),
               price_change     |-> Num(close[n] - close[n - 1]),
               price_change_pct |-> PriceChangePct(close[n], close[n - 1]),
               volatility       |-> AnnualVolatility(t),
               ma_20            |-> RoundMean(RollingMeanLast(close, 20)),
               ma_50            |-> RoundMean(RollingMeanLast(close, 50)),
               market_cap       |-> IF info.marketCap.t = "absent" THEN NA
                                    ELSE Str(info.marketCap),
               volume           |-> hist_data.Volume[n],
               avg_volume       |-> TruncDiv(vm.v, vm.d),
               high_52w         |-> SeqMax(hist_data.High),
               low_52w          |-> SeqMin(hist_data.Low),
               pe_ratio         |-> IF Truthy(info.trailingPE) THEN info.trailingPE ELSE NA,
               pb_ratio         |-> IF Truthy(info.priceToBook) THEN info.priceToBook ELSE NA,
               dividend_yield   |-> IF Truthy(info.dividendYield)
                                    THEN info.dividendYield ELSE Num(0)]

----------------------------------------------------------------------------
(* /api/bank/<bank_name> (main.get_bank_data): fetch, then score *)

BankNames == DOMAIN INDIAN_BANKS \cup {"Unknown Bank"}

NoTicker == [raises |-> FALSE, n |-> 0, shape |-> "flat", info |-> NoInfo]

\* the shared BankHealthAnalyzer and AIBudgetPlanner as register_routes
\* constructs them: the dictionaries set by the two __init__ methods, empty,
\* and the class-level rosters
FreshServices ==
    [bank_data     |-> << >>,
     health_scores |-> << >>,
     user_profiles |-> << >>,
     budget_plans  |-> << >>,
     INDIAN_BANKS  |-> INDIAN_BANKS,
     BUDGET_CATEGORIES |-> [essential_expenses |-> 50, financial_goals |-> 20,
                            discretionary |-> 30]]

NoServiceCalls == services = FreshServices /\ call_log = << >>
ServiceVars == <<services, call_log>>

\* a new session has no chat_history key
NewSession == [has_chat_history |-> FALSE, chat_history |-> << >>]
NoChat == session = NewSession /\ chat_log = << >>
ChatVars == <<session, chat_log>>

NoBudgetCall == user_data = None /\ budget = None /\ fin_health = None
BudgetVars == <<user_data, budget, fin_health>>

NoSectorCall ==
    /\ supplied = << >>
    /\ sector_data = << >>
    /\ total_score = 0
    /\ bank_count = 0
    /\ sector_overview = None
    /\ warning_indicators = None
    /\ route_overview = None
SectorVars == <<supplied, sector_data, total_score, bank_count, sector_overview,
                warning_indicators, route_overview>>

InitBank ==
    /\ bank_name \in BankNames
    /\ ticker \in SupplierResponses
    /\ bank_data = None
    /\ health_analysis = None
    /\ NoBudgetCall
    /\ NoSectorCall
    /\ NoServiceCalls
    /\ NoChat
    /\ pc = "start"

GetBankStockData ==
    /\ pc = "start"
    /\ bank_data' = get_bank_stock_data(bank_name, ticker)
    /\ pc' = "fetched"
    /\ UNCHANGED <<ServiceVars, ChatVars, bank_name, ticker, health_analysis, BudgetVars, SectorVars>>

CalculateBankHealthScore ==
    /\ pc = "fetched"
    /\ health_analysis' = calculate_bank_health_score(bank_data)
    /\ pc' = "done"
    /\ UNCHANGED <<ServiceVars, ChatVars, bank_name, ticker, bank_data, BudgetVars, SectorVars>>

NextBank == GetBankStockData \/ CalculateBankHealthScore

SpecBank == InitBank /\ [][NextBank]_vars

----------------------------------------------------------------------------
(* AIBudgetPlanner (services/budget_planner.py)                            *)
(*                                                                         *)
(* user_data is the JSON object of the request.  Each entry is a Python    *)
(* value [t, v] with t = "absent" when the key is missing and t = "str"    *)
(* when the client sent a string where a number is expected.  Money is in  *)
(* cents.  current_expenses is [t, savings, debt_payments, emergency_fund] *)
(* with t = "dict", "absent", or "list" (a JSON array sent by mistake);    *)
(* financial_goals is [t, len] with t = "list", "absent" or "num".         *)
(* Ratios are exact rationals [num, den]; den = 0 is a ZeroDivisionError.  *)

StrVal == [t |-> "str", v |-> 0]

\* dict.get(key, default)
Get(x, default) == IF x.t = "absent" THEN default ELSE x

\* round(a * b / c) to the nearest integer, ties to even, for a >= 0, b >= 0,
\* c > 0, without forming the product a * b
RoundMulDiv(a, b, c) ==
    LET rem == (a % c) * b
        q   == (a \div c) * b + rem \div c
        r   == rem % c
    IN  IF 2 * r > c THEN q + 1
        ELSE IF 2 * r < c THEN q
        ELSE IF q % 2 = 0 THEN q ELSE q + 1

\* _calculate_budget_allocation(income, expenses, goals, risk_tolerance, age)
\* for a numeric income (cents) and a numeric age
essential_percentage(risk_tolerance) == IF risk_tolerance = "conservative" THEN 55 ELSE 50

\* the goals share with the age boundary on the wrong side
goals_percentage_UpTo30(age) == IF age <= 30 THEN 25 ELSE 20

goals_percentage(age) == IF age < 30 THEN 25 ELSE 20

\* the remainder with the essential amount added to total_allocated twice
DiscretionaryX100_EssentialTwice(income, pe, pg) ==
    income * 100 - (2 * income * pe + income * pg)

\* discretionary_amount = income - total_allocated, as a multiple of 1/100 cent
DiscretionaryX100(income, pe, pg) == income * 100 - (income * pe + income * pg)

\* the allocation with housing taken as 50 percent of the essential amount
_calculate_budget_allocation_Housing50(income, risk_tolerance, age) ==
    LET pe == essential_percentage(risk_tolerance)
        pg == goals_percentage(age)
        dx == DiscretionaryX100(income, pe, pg)
    IN [essential_expenses |->
          [amount     |-> RoundDiv(income * pe, 100),
           percentage |-> pe * Scale,
           breakdown  |-> [housing   |-> RoundMulDiv(income, pe * 50, 10000),
                           utilities |-> RoundMulDiv(income, pe * 18, 10000),
                           groceries |-> RoundMulDiv(income, pe * 27, 10000)]],
        financial_goals |->
          [amount     |-> RoundDiv(income * pg, 100),
           percentage |-> pg * Scale,
           breakdown  |-> [emergency_fund |-> RoundMulDiv(income, pg * 40, 10000),
                           savings        |-> RoundMulDiv(income, pg * 30, 10000),
                           investments    |-> RoundMulDiv(income, pg * 30, 10000)]],
        discretionary |->
          [amount     |-> RoundDiv(dx, 100),
           percentage |-> RoundMulDiv(dx, 100, income),
           breakdown  |-> [entertainment |-> RoundMulDiv(dx, 33, 10000),
                           dining_out    |-> RoundMulDiv(dx, 27, 10000),
                           shopping      |-> RoundMulDiv(dx, 23, 10000),
                           hobbies       |-> RoundMulDiv(dx, 17, 10000)]]]

_calculate_budget_allocation(income, risk_tolerance, age) ==
    LET pe == essential_percentage(risk_tolerance)
        pg == goals_percentage(age)
        dx == DiscretionaryX100(income, pe, pg)
    IN [essential_expenses |->
          [amount     |-> RoundDiv(income * pe, 100),
           percentage |-> pe * Scale,
           breakdown  |-> [housing   |-> RoundMulDiv(income, pe * 55, 10000),
                           utilities |-> RoundMulDiv(income, pe * 18, 10000),
                           groceries |-> RoundMulDiv(income, pe * 27, 10000)]],
        financial_goals |->
          [amount     |-> RoundDiv(income * pg, 100),
           percentage |-> pg * Scale,
           breakdown  |-> [emergency_fund |-> RoundMulDiv(income, pg * 40, 10000),
                           savings        |-> RoundMulDiv(income, pg * 30, 10000),
                           investments    |-> RoundMulDiv(income, pg * 30, 10000)]],
        discretionary |->
          [amount     |-> RoundDiv(dx, 100),
           percentage |-> RoundMulDiv(dx, 100, income),
           breakdown  |-> [entertainment |-> RoundMulDiv(dx, 33, 10000),
                           dining_out    |-> RoundMulDiv(dx, 27, 10000),
                           shopping      |-> RoundMulDiv(dx, 23, 10000),
                           hobbies       |-> RoundMulDiv(dx, 17, 10000)]]]

\* the recommendations with the investment tip given up to age 40
_generate_recommendations_UpTo40(income, expenses, age) ==
    LET debt    == Get(expenses.debt_payments, Num(0)).v
        savings == Get(expenses.savings, Num(0)).v
    IN  <<[category |-> "Emergency Fund", target |-> income * 6]>>
        \o (IF 10 * debt > 2 * income
            THEN <<[category |-> "Debt Management", target |-> 0]>> ELSE << >>)
        \o (IF age <= 40
            THEN <<[category |-> "Investments", target |-> 0]>> ELSE << >>)
        \o (IF savings * 100 < 20 * income
            THEN <<[category |-> "Savings", target |-> 0]>> ELSE << >>)
        \o <<[category |-> "Insurance", target |-> 0]>>

\* _generate_recommendations: the categories appended, in order
_generate_recommendations(income, expenses, age) ==
    LET debt    == Get(expenses.debt_payments, Num(0)).v
        savings == Get(expenses.savings, Num(0)).v
    IN  <<[category |-> "Emergency Fund", target |-> income * 6]>>
        \o (IF 10 * debt > 2 * income
            THEN <<[category |-> "Debt Management", target |-> 0]>> ELSE << >>)
        \o (IF age < 40
            THEN <<[category |-> "Investments", target |-> 0]>> ELSE << >>)
        \o (IF savings * 100 < 20 * income
            THEN <<[category |-> "Savings", target |-> 0]>> ELSE << >>)
        \o <<[category |-> "Insurance", target |-> 0]>>

RECURSIVE SumRange(_)
\* sum(range(1, week + 1))
SumRange(week) == IF week = 0 THEN 0 ELSE week + SumRange(week - 1)

Weeks == 52

\* the breakdown with the running total taken before the week's deposit
_generate_52_week_breakdown_BeforeDeposit ==
    [week \in 1..Weeks |->
        [week |-> week, amount |-> week, cumulative |-> SumRange(week - 1)]]

_generate_52_week_breakdown ==
    [week \in 1..Weeks |-> [week |-> week, amount |-> week, cumulative |-> SumRange(week)]]

TotalSavings52 == 1378

\* the challenges with the no-spend estimate raised for a user who has goals
_create_savings_challenges_GoalAware(income, goals) ==
    <<[challenge_id |-> "52_week", total_savings |-> TotalSavings52,
       weekly_breakdown |-> _generate_52_week_breakdown],
      [challenge_id |-> "no_spend",
       potential_savings |-> IF goals.len > 0 THEN RoundDiv(income * 30, 100)
                             ELSE RoundDiv(income * 25, 100)],
      [challenge_id |-> "round_up", potential_savings |-> RoundDiv(income * 5, 100)]>>

\* _create_savings_challenges(income, goals): the keys that carry data; the
\* remaining keys of each challenge are fixed texts
_create_savings_challenges(income, goals) ==
    <<[challenge_id |-> "52_week", total_savings |-> TotalSavings52,
       weekly_breakdown |-> _generate_52_week_breakdown],
      [challenge_id |-> "no_spend", potential_savings |-> RoundDiv(income * 25, 100)],
      [challenge_id |-> "round_up", potential_savings |-> RoundDiv(income * 5, 100)]>>

----------------------------------------------------------------------------
(* AIBudgetPlanner._calculate_financial_health_score *)

\* the ratio without its income guard
GuardedRatio_NoGuard(x, income) == [num |-> x, den |-> income]

\* x / income if income > 0 else 0, as an exact rational
GuardedRatio(x, income) ==
    IF income > 0 THEN [num |-> x, den |-> income] ELSE [num |-> 0, den |-> 1]

\* savings_rate and debt_ratio are (x / income) * 100
savings_rate(savings, income) ==
    LET r == GuardedRatio(savings, income) IN [num |-> r.num * 100, den |-> r.den]
debt_ratio(debt_payments, income) ==
    LET r == GuardedRatio(debt_payments, income) IN [num |-> r.num * 100, den |-> r.den]
emergency_months(emergency_fund, income) == GuardedRatio(emergency_fund, income)

\* r >= k and r <= k for a rational r with den > 0
RatGe(r, k) == r.num >= k * r.den
RatLe(r, k) == r.num <= k * r.den

\* thresholds of the income factor, in cents
HighIncome     == 5000000
GoodIncome     == 3000000
ModerateIncome == 1500000

IncomeFactor(income) ==
    IF income > HighIncome THEN [pts |-> 20, note |-> "High income level"]
    ELSE IF income > GoodIncome THEN [pts |-> 15, note |-> "Good income level"]
    ELSE IF income > ModerateIncome THEN [pts |-> 10, note |-> "Moderate income level"]
    ELSE [pts |-> 0, note |-> "Low income level"]

SavingsFactor(r) ==
    IF RatGe(r, 20) THEN [pts |-> 25, note |-> "Excellent savings rate"]
    ELSE IF RatGe(r, 15) THEN [pts |-> 20, note |-> "Good savings rate"]
    ELSE IF RatGe(r, 10) THEN [pts |-> 15, note |-> "Moderate savings rate"]
    ELSE [pts |-> 0, note |-> "Low savings rate"]

\* the debt factor with its limits excluded from the better tier
DebtFactor_Strict(r) ==
    IF ~RatGe(r, 10) THEN [pts |-> 20, note |-> "Excellent debt management"]
    ELSE IF ~RatGe(r, 20) THEN [pts |-> 15, note |-> "Good debt management"]
    ELSE IF ~RatGe(r, 30) THEN [pts |-> 10, note |-> "Moderate debt load"]
    ELSE [pts |-> 0, note |-> "High debt load"]

DebtFactor(r) ==
    IF RatLe(r, 10) THEN [pts |-> 20, note |-> "Excellent debt management"]
    ELSE IF RatLe(r, 20) THEN [pts |-> 15, note |-> "Good debt management"]
    ELSE IF RatLe(r, 30) THEN [pts |-> 10, note |-> "Moderate debt load"]
    ELSE [pts |-> 0, note |-> "High debt load"]

GoalsFactor(n) ==
    IF n >= 3 THEN [pts |-> 20, note |-> "Multiple financial goals set"]
    ELSE IF n >= 1 THEN [pts |-> 15, note |-> "Some financial goals set"]
    ELSE [pts |-> 0, note |-> "No financial goals identified"]

EmergencyFactor(r) ==
    IF RatGe(r, 6) THEN [pts |-> 15, note |-> "Strong emergency fund"]
    ELSE IF RatGe(r, 3) THEN [pts |-> 10, note |-> "Adequate emergency fund"]
    ELSE [pts |-> 0, note |-> "Insufficient emergency fund"]

\* Determine overall status
FinStatus(score) ==
    IF score >= 80 THEN "Excellent"
    ELSE IF score >= 60 THEN "Good"
    ELSE IF score >= 40 THEN "Fair"
    ELSE "Poor"

_get_health_recommendation(score) ==
    IF score >= 80 THEN "Excellent financial health"
    ELSE IF score >= 60 THEN "Good financial health"
    ELSE IF score >= 40 THEN "Fair financial health"
    ELSE "Poor financial health"

EmptyExpenses == [t |-> "dict", savings |-> Absent, debt_payments |-> Absent,
                  emergency_fund |-> Absent]
EmptyGoals == [t |-> "list", len |-> 0]

\* the exception the scorer raises on user_data u, or "none"
FinHealthException(u) ==
    LET income   == Get(u.monthly_income, Num(0))
        expenses == Get(u.current_expenses, EmptyExpenses)
        goals    == Get(u.financial_goals, EmptyGoals)
    IN  IF u.t # "dict" THEN "AttributeError"                \* user_data.get
        ELSE IF income.t = "str" THEN "TypeError"            \* income > 50000
        ELSE IF expenses.t # "dict" THEN "AttributeError"    \* expenses.get
        ELSE LET rs == savings_rate(Get(expenses.savings, Num(0)).v, income.v)
                 rd == debt_ratio(Get(expenses.debt_payments, Num(0)).v, income.v)
                 re == emergency_months(Get(expenses.emergency_fund, Num(0)).v, income.v)
             IN
             IF rs.den = 0 \/ rd.den = 0 \/ re.den = 0 THEN "ZeroDivisionError"
             \* a string amount is divided only when income > 0
             ELSE IF income.v > 0 /\ (\/ Get(expenses.savings, Num(0)).t = "str"
                                      \/ Get(expenses.debt_payments, Num(0)).t = "str"
                                      \/ Get(expenses.emergency_fund, Num(0)).t = "str")
                  THEN "TypeError"
             ELSE IF goals.t # "list" THEN "TypeError"        \* len(goals)
             ELSE "none"

_calculate_financial_health_score(u) ==
    IF FinHealthException(u) # "none" THEN [exception |-> FinHealthException(u)]
    ELSE
    LET income   == Get(u.monthly_income, Num(0)).v
        expenses == Get(u.current_expenses, EmptyExpenses)
        goals    == Get(u.financial_goals, EmptyGoals)
        fi == IncomeFactor(income)
        fs == SavingsFactor(savings_rate(Get(expenses.savings, Num(0)).v, income))
        fd == DebtFactor(debt_ratio(Get(expenses.debt_payments, Num(0)).v, income))
        fg == GoalsFactor(goals.len)
        fe == EmergencyFactor(emergency_months(Get(expenses.emergency_fund, Num(0)).v, income))
        score == fi.pts + fs.pts + fd.pts + fg.pts + fe.pts
    IN [score          |-> score,
        max_score      |-> 100,
        status         |-> FinStatus(score),
        factors        |-> <<fi.note, fs.note, fd.note, fg.note, fe.note>>,
        recommendation |-> _get_health_recommendation(score)]

IsException(r) == "exception" \in DOMAIN r

----------------------------------------------------------------------------
(* AIBudgetPlanner.create_personalized_budget *)

\* an exception raised inside the try block before the result is built
BudgetRaises(u) ==
    LET monthly_income   == Get(u.monthly_income, Num(0))
        current_expenses == Get(u.current_expenses, EmptyExpenses)
        age              == Get(u.age, Num(30))
    IN  \/ u.t # "dict"                                  \* user_data.get
        \/ monthly_income.t = "str"                      \* monthly_income <= 0
        \/ /\ monthly_income.t = "num" /\ monthly_income.v > 0
           /\ \/ age.t = "str"                           \* age < 30
              \/ current_expenses.t # "dict"             \* expenses.get
              \/ Get(current_expenses.debt_payments, Num(0)).t = "str"
              \/ Get(current_expenses.savings, Num(0)).t = "str"
              \/ IsException(_calculate_financial_health_score(u))

\* the planner with an except clause that lets the exception through
create_personalized_budget_Uncaught(u) ==
    IF BudgetRaises(u) THEN [exception |-> "TypeError"]
    ELSE
    LET monthly_income   == Get(u.monthly_income, Num(0)).v
        current_expenses == Get(u.current_expenses, EmptyExpenses)
        risk_tolerance   == IF u.risk_tolerance = "absent" THEN "moderate"
                            ELSE u.risk_tolerance
        age              == Get(u.age, Num(30)).v
    IN  IF monthly_income <= 0 THEN [error |-> "Invalid monthly income"]
        ELSE [budget_plan |->
                _calculate_budget_allocation(monthly_income, risk_tolerance, age),
              recommendations |->
                _generate_recommendations(monthly_income, current_expenses, age),
              savings_challenges |->
                _create_savings_challenges(monthly_income,
                                           Get(u.financial_goals, EmptyGoals)),
              financial_health_score |-> _calculate_financial_health_score(u),
              created_date |-> "now"]

create_personalized_budget(u) ==
    IF BudgetRaises(u) THEN [error |-> "Failed to create budget plan"]
    ELSE
    LET monthly_income   == Get(u.monthly_income, Num(0)).v
        current_expenses == Get(u.current_expenses, EmptyExpenses)
        risk_tolerance   == IF u.risk_tolerance = "absent" THEN "moderate"
                            ELSE u.risk_tolerance
        age              == Get(u.age, Num(30)).v
    IN  IF monthly_income <= 0 THEN [error |-> "Invalid monthly income"]
        ELSE [budget_plan |->
                _calculate_budget_allocation(monthly_income, risk_tolerance, age),
              recommendations |->
                _generate_recommendations(monthly_income, current_expenses, age),
              savings_challenges |->
                _create_savings_challenges(monthly_income,
                                           Get(u.financial_goals, EmptyGoals)),
              financial_health_score |-> _calculate_financial_health_score(u),
              created_date |-> "now"]

----------------------------------------------------------------------------
(* /api/create-budget: one call of create_personalized_budget *)

MaxGoals == 3

Incomes ==
    {Absent, StrVal, Num(-100), Num(0), Num(3), Num(65), Num(10003), Num(1500000),
     Num(3000001), Num(5000001), Num(10000000)}

ExpenseDicts ==
    [t              : {"dict"},
     savings        : {Absent, Num(0), Num(1500000), Num(2000000), StrVal},
     debt_payments  : {Absent, Num(1000000), Num(2000000), Num(2000001), Num(3500000)},
     emergency_fund : {Absent, Num(30000000), Num(60000000)}]

Expenses ==
    ExpenseDicts \cup {[t |-> x, savings |-> Absent, debt_payments |-> Absent,
                        emergency_fund |-> Absent] : x \in {"absent", "list"}}

Goals ==
    [t : {"list"}, len : 0..MaxGoals] \cup {[t |-> x, len |-> 0] : x \in {"absent", "num"}}

UserDatas ==
    [t                : {"dict"},
     monthly_income   : Incomes,
     current_expenses : Expenses,
     financial_goals  : Goals,
     risk_tolerance   : {"absent", "conservative", "moderate", "aggressive"},
     age              : {Absent, Num(25), Num(30), Num(40), Num(45), StrVal}]
    \cup {[t |-> "list", monthly_income |-> Absent,
           current_expenses |-> [t |-> "absent", savings |-> Absent,
                                 debt_payments |-> Absent, emergency_fund |-> Absent],
           financial_goals |-> [t |-> "absent", len |-> 0],
           risk_tolerance |-> "absent", age |-> Absent]}

NoBankCall ==
    bank_name = "" /\ ticker = NoTicker /\ bank_data = None /\ health_analysis = None
BankVars == <<bank_name, ticker, bank_data, health_analysis>>

InitBudget ==
    /\ NoBankCall
    /\ NoSectorCall
    /\ NoServiceCalls
    /\ NoChat
    /\ user_data \in UserDatas
    /\ budget = None
    /\ fin_health = None
    /\ pc = "start"

CreatePersonalizedBudget ==
    /\ pc = "start"
    /\ user_data # None
    /\ budget' = create_personalized_budget(user_data)
    /\ pc' = "created"
    /\ UNCHANGED <<ServiceVars, ChatVars, BankVars, SectorVars, user_data, fin_health>>

NextBudget == CreatePersonalizedBudget

SpecBudget == InitBudget /\ [][NextBudget]_vars

----------------------------------------------------------------------------
(* The two scorers as pure functions of their argument *)

MetricsRecords ==
    [bank_name        : {"HDFC Bank"},
     symbol           : {"HDFCBANK.NS"},
     current_price    : {Num(10000)},
     price_change     : {Num(0)},
     price_change_pct : {Num(-150), Num(0), Num(200), Num(1000), Num(2500), PosInf, NaN},
     volatility       : {Num(1500), Num(2000), Num(2500), Num(3000)},
     ma_20            : {Num(9900), Num(10000), NaN},
     ma_50            : {Num(9800), Num(9900)},
     market_cap       : {NA, Str(Num(200)), Num(10), Num(50), Num(100), Num(200)},
     volume           : {1000, 1500, 1600},
     avg_volume       : {1000},
     high_52w         : {12000},
     low_52w          : {8000},
     pe_ratio         : {NA, Num(500), Num(1000), Num(2000), Num(2500)},
     pb_ratio         : {NA, Num(200), Num(250)},
     dividend_yield   : {Num(100), Num(200), Num(300), Num(400)}]

InitScore ==
    \/ /\ bank_name = ""
       /\ ticker = NoTicker
       /\ bank_data \in MetricsRecords
       /\ health_analysis = None
       /\ NoBudgetCall
       /\ NoSectorCall
       /\ NoServiceCalls
       /\ NoChat
       /\ pc = "fetched"
    \/ /\ NoBankCall
       /\ NoSectorCall
       /\ NoServiceCalls
       /\ NoChat
       /\ user_data \in UserDatas
       /\ budget = None
       /\ fin_health = None
       /\ pc = "scoring"

CalculateFinancialHealthScore ==
    /\ pc = "scoring"
    /\ fin_health' = _calculate_financial_health_score(user_data)
    /\ pc' = "scored"
    /\ UNCHANGED <<ServiceVars, ChatVars, BankVars, SectorVars, user_data, budget>>

NextScore == CalculateBankHealthScore \/ CalculateFinancialHealthScore

SpecScore == InitScore /\ [][NextScore]_vars

----------------------------------------------------------------------------
(* BankHealthAnalyzer.get_banking_sector_overview and                      *)
(* get_early_warning_indicators                                            *)

\* INDIAN_BANKS.keys(), in insertion order
Roster ==
    <<"HDFC Bank", "ICICI Bank", "State Bank of India", "Kotak Mahindra Bank",
      "Axis Bank", "Bank of Baroda", "Punjab National Bank", "Canara Bank",
      "Union Bank", "IDBI Bank">>

\* the loop body for bank b whose fetch returned bd: an entry is added and
\* counted only when neither the fetch nor the scoring is an error
SectorAccumulate_CountAll(acc, b, bd) ==
    IF ~IsError(bd) /\ ~IsError(calculate_bank_health_score(bd))
    THEN [sector_data |-> acc.sector_data @@
                          (b :> [stock_data |-> bd,
                                 health_analysis |-> calculate_bank_health_score(bd)]),
          total_score |-> acc.total_score + calculate_bank_health_score(bd).health_score,
          bank_count  |-> acc.bank_count + 1]
    ELSE [acc EXCEPT !.bank_count = @ + 1]

SectorAccumulate(acc, b, bd) ==
    IF ~IsError(bd) /\ ~IsError(calculate_bank_health_score(bd))
    THEN [sector_data |-> acc.sector_data @@
                          (b :> [stock_data |-> bd,
                                 health_analysis |-> calculate_bank_health_score(bd)]),
          total_score |-> acc.total_score + calculate_bank_health_score(bd).health_score,
          bank_count  |-> acc.bank_count + 1]
    ELSE acc

\* thresholds of the sentiment bands
BullishFrom == 70
NeutralFrom == 50

\* sentiment with the bands of the per-bank status table
SectorSentiment_StatusBands(total, count) ==
    IF total >= 80 * Scale * count THEN "Bullish"
    ELSE IF total >= 60 * Scale * count THEN "Neutral"
    ELSE "Bearish"

\* avg_sector_score = total_score / bank_count compared with 70 and 50
SectorSentiment(total, count) ==
    IF total >= BullishFrom * Scale * count THEN "Bullish"
    ELSE IF total >= NeutralFrom * Scale * count THEN "Neutral"
    ELSE "Bearish"

SectorOverviewResult(data, total, count) ==
    IF count > 0
    THEN [sector_overview      |-> data,
          average_sector_score |-> RoundDiv(total, count),
          sector_sentiment     |-> SectorSentiment(total, count),
          total_banks_analyzed |-> count,
          analysis_date        |-> "now"]
    ELSE [error |-> "Unable to fetch banking sector data"]

\* number of banks of the overview with health_score < 40
PoorBanks(data) ==
    Cardinality({b \in DOMAIN data : data[b].health_analysis.health_score < 40 * Scale})


\* poor_banks > len(sector_overview) * 0.3, with >= in place of >
ManyPoorBanks_AtLeast(poor_banks, n) == 10 * poor_banks >= 3 * n

\* poor_banks > len(sector_overview) * 0.3
ManyPoorBanks(poor_banks, n) == 10 * poor_banks > 3 * n

EarlyWarningResult(ov) ==
    IF IsError(ov) THEN [error |-> ov.error]
    ELSE [warnings |->
             (IF ov.average_sector_score < 50 * Scale THEN <<[level |-> "High", indicator |-> "Low Sector Health Score"]>>
              ELSE << >>)
             \o (IF ManyPoorBanks(PoorBanks(ov.sector_overview),
                                  Cardinality(DOMAIN ov.sector_overview))
                 THEN <<[level |-> "Medium", indicator |-> "Multiple Banks Under Stress"]>>
                 ELSE << >>),
          sector_health_score |-> ov.average_sector_score,
          analysis_date |-> "now"]

\* the supplier's answers during a sector pass
Tk(shape, pe, pb, dy) ==
    [raises |-> FALSE, n |-> MaxBars, shape |-> shape,
     info |-> [marketCap |-> Num(200), trailingPE |-> pe, priceToBook |-> pb,
               dividendYield |-> dy]]
TkRaise == [raises |-> TRUE, n |-> 0, shape |-> "flat", info |-> NoInfo]
TkPoor  == Tk("choppy", Absent, Absent, Absent)
TkGood  == Tk("up250", Num(800), Num(150), Num(400))
Tk5000  == Tk("flat", Num(800), Num(150), Num(400))
Tk4998  == Tk("up249", Num(800), Absent, Absent)
Tk7000  == Tk("up250", Num(800), Num(150), Absent)
Tk6998  == Tk("up249", Num(800), Num(150), Num(400))

SectorResponses(i) ==
    CASE i = 1 -> {TkRaise, TkPoor, TkGood, Tk5000, Tk4998}
      [] i = 2 -> {TkRaise, TkPoor, TkGood, Tk5000, Tk7000}
      [] i = 3 -> {TkRaise, TkPoor, TkGood, Tk5000, Tk6998}
      [] i \in {4, 5} -> {TkRaise, TkPoor, TkGood, Tk5000}
      [] OTHER -> {TkRaise, TkGood}

\* get_bank_stock_data for every roster bank and every answer of the
\* supplier to its fetch, tabulated
RosterFetch ==
    [i \in 1..Len(Roster) |->
        [r \in SectorResponses(i) |-> get_bank_stock_data(Roster[i], r)]]

InitSector ==
    /\ NoBankCall
    /\ NoBudgetCall
    /\ NoSectorCall
    /\ NoServiceCalls
    /\ NoChat
    /\ pc = "sector_loop"

\* one iteration of the loop over the roster
SectorLoopStep ==
    /\ pc = "sector_loop"
    /\ Len(supplied) < Len(Roster)
    /\ \E r \in SectorResponses(Len(supplied) + 1) :
         LET b   == Roster[Len(supplied) + 1]
             acc == SectorAccumulate([sector_data |-> sector_data,
                                      total_score |-> total_score,
                                      bank_count  |-> bank_count],
                                     b, RosterFetch[Len(supplied) + 1][r])
         IN /\ supplied' = Append(supplied, r)
            /\ sector_data' = acc.sector_data
            /\ total_score' = acc.total_score
            /\ bank_count' = acc.bank_count
    /\ UNCHANGED <<ServiceVars, ChatVars, route_overview, BankVars, BudgetVars, sector_overview, warning_indicators, pc>>

\* the return of get_banking_sector_overview after the loop
SectorReturn ==
    /\ pc = "sector_loop"
    /\ Len(supplied) = Len(Roster)
    /\ sector_overview' = SectorOverviewResult(sector_data, total_score, bank_count)
    /\ pc' = "overview"
    /\ UNCHANGED <<ServiceVars, ChatVars, route_overview, BankVars, BudgetVars, supplied, sector_data, total_score,
                   bank_count, warning_indicators>>

\* get_early_warning_indicators on the overview it has just obtained
EarlyWarning ==
    /\ pc = "overview"
    /\ warning_indicators' = EarlyWarningResult(sector_overview)
    /\ pc' = "warned"
    /\ UNCHANGED <<ServiceVars, ChatVars, route_overview, BankVars, BudgetVars, supplied, sector_data, total_score,
                   bank_count, sector_overview>>

NextSector == SectorLoopStep \/ SectorReturn \/ EarlyWarning

SpecSector == InitSector /\ [][NextSector]_vars

----------------------------------------------------------------------------
(* /bank-analysis (main.bank_analysis): the route calls                    *)
(* get_banking_sector_overview and then get_early_warning_indicators,      *)
(* which calls get_banking_sector_overview again; the roster is fetched    *)
(* twice and the supplier answers each fetch on its own.                   *)

RouteResponses(i) ==
    CASE i \in 1..3 -> {TkRaise, TkPoor, TkGood}
      [] i \in 4..5 -> {TkRaise, TkGood}
      [] OTHER      -> {TkGood}

InitRoute ==
    /\ NoBankCall
    /\ NoBudgetCall
    /\ NoSectorCall
    /\ NoServiceCalls
    /\ NoChat
    /\ pc = "route_overview"

\* one iteration of the roster loop, in either pass
RouteLoopStep ==
    /\ pc \in {"route_overview", "route_warnings"}
    /\ Len(supplied) < Len(Roster)
    /\ \E r \in RouteResponses(Len(supplied) + 1) :
         LET b   == Roster[Len(supplied) + 1]
             acc == SectorAccumulate([sector_data |-> sector_data,
                                      total_score |-> total_score,
                                      bank_count  |-> bank_count],
                                     b, RosterFetch[Len(supplied) + 1][r])
         IN /\ supplied' = Append(supplied, r)
            /\ sector_data' = acc.sector_data
            /\ total_score' = acc.total_score
            /\ bank_count' = acc.bank_count
    /\ UNCHANGED <<ServiceVars, ChatVars, BankVars, BudgetVars, sector_overview,
                   warning_indicators, route_overview, pc>>

\* the route's own get_banking_sector_overview returns; the call of
\* get_early_warning_indicators starts its pass with fresh locals
RouteOverviewReturn ==
    /\ pc = "route_overview"
    /\ Len(supplied) = Len(Roster)
    /\ route_overview' = SectorOverviewResult(sector_data, total_score, bank_count)
    /\ supplied' = << >>
    /\ sector_data' = << >>
    /\ total_score' = 0
    /\ bank_count' = 0
    /\ pc' = "route_warnings"
    /\ UNCHANGED <<ServiceVars, ChatVars, BankVars, BudgetVars, sector_overview,
                   warning_indicators>>

\* get_early_warning_indicators returns from its own overview, and the
\* template is rendered with route_overview and warning_indicators
RouteWarningsReturn ==
    /\ pc = "route_warnings"
    /\ Len(supplied) = Len(Roster)
    /\ sector_overview' = SectorOverviewResult(sector_data, total_score, bank_count)
    /\ warning_indicators' =
         EarlyWarningResult(SectorOverviewResult(sector_data, total_score, bank_count))
    /\ pc' = "rendered"
    /\ UNCHANGED <<ServiceVars, ChatVars, BankVars, BudgetVars, supplied, sector_data,
                   total_score, bank_count, route_overview>>

NextRoute == RouteLoopStep \/ RouteOverviewReturn \/ RouteWarningsReturn

SpecRoute == InitRoute /\ [][NextRoute]_vars

----------------------------------------------------------------------------
(* The routes of main.register_routes serve every request with the same    *)
(* BankHealthAnalyzer and the same AIBudgetPlanner.  A call is recorded as *)
(* [op, arg, result]; the supplier's answer is part of arg.                *)

MaxCalls == 2

CallTickers == {TkRaise, TkPoor, TkGood}

CallUserDatas ==
    [t                : {"dict"},
     monthly_income   : {Num(0), Num(10000000)},
     current_expenses : {EmptyExpenses},
     financial_goals  : {[t |-> "list", len |-> 0], [t |-> "list", len |-> 1]},
     risk_tolerance   : {"conservative"},
     age              : {Num(25)}]

\* a method that remembers what it last returned for a bank or a user
ServiceEffect_Remember(self, op, arg, result) ==
    CASE op = "get_bank_stock_data" ->
           [self EXCEPT !.bank_data = (arg.bank_name :> result)]
      [] op = "calculate_bank_health_score" ->
           [self EXCEPT !.health_scores = <<result>>]
      [] OTHER ->
           [self EXCEPT !.budget_plans = <<result>>]

\* the service objects after a call: no method of either class assigns to a
\* field of self or to a class attribute
ServiceEffect(self, op, arg, result) == self

Serve(op, arg, result) ==
    /\ pc = "serving"
    /\ Len(call_log) < MaxCalls
    /\ services' = ServiceEffect(services, op, arg, result)
    /\ call_log' = Append(call_log, [op |-> op, arg |-> arg, result |-> result])
    /\ UNCHANGED <<BankVars, BudgetVars, SectorVars, ChatVars, pc>>

InitServices ==
    /\ NoBankCall
    /\ NoBudgetCall
    /\ NoSectorCall
    /\ NoServiceCalls
    /\ NoChat
    /\ pc = "serving"

CallGetBankStockData ==
    \E b \in {"HDFC Bank", "IDBI Bank", "Unknown Bank"}, t \in CallTickers :
        Serve("get_bank_stock_data", [bank_name |-> b, ticker |-> t],
              get_bank_stock_data(b, t))

CallCalculateBankHealthScore ==
    \E b \in {"HDFC Bank", "Unknown Bank"}, t \in CallTickers :
        Serve("calculate_bank_health_score", get_bank_stock_data(b, t),
              calculate_bank_health_score(get_bank_stock_data(b, t)))

CallCreatePersonalizedBudget ==
    \E u \in CallUserDatas :
        Serve("create_personalized_budget", u, create_personalized_budget(u))

\* the local dictionary tips of get_savings_tips: profile -> titles of its tips
SavingsTips ==
    [profile \in {"beginner", "intermediate", "advanced"} |->
        CASE profile = "beginner" ->
               <<"Start Small", "Use the 50/30/20 Rule", "Track Every Rupee">>
          [] profile = "intermediate" ->
               <<"Automate Savings", "Cut Subscriptions", "Meal Planning">>
          [] OTHER ->
               <<"Side Hustle", "Invest Wisely", "Negotiate Bills">>]

\* tips.get(user_profile, tips["general"]): the default tips["general"] is
\* evaluated before the lookup, and raises KeyError when the key is missing
get_savings_tips(user_profile) ==
    IF "general" \notin DOMAIN SavingsTips THEN [exception |-> "KeyError"]
    ELSE IF user_profile \in DOMAIN SavingsTips
         THEN [returned |-> SavingsTips[user_profile]]
         ELSE [returned |-> SavingsTips["general"]]

\* /api/savings-tips/<profile> (main.get_savings_tips)
api_savings_tips(profile) ==
    LET tips == get_savings_tips(profile)
    IN  IF IsException(tips)
        THEN [status |-> 500, body |-> [error |-> "Failed to fetch tips"]]
        ELSE [status |-> 200, body |-> [tips |-> tips.returned]]


CallGetSavingsTips ==
    \E profile \in {"beginner", "intermediate", "advanced", "general", "expert"} :
        Serve("get_savings_tips", profile, get_savings_tips(profile))

NextServices ==
    \/ CallGetBankStockData
    \/ CallCalculateBankHealthScore
    \/ CallCreatePersonalizedBudget
    \/ CallGetSavingsTips

SpecServices == InitServices /\ [][NextServices]_vars

----------------------------------------------------------------------------
(* The chat routes of main.py and ChatbotService (chatbot_service.py).     *)
(*                                                                         *)
(* A /chat request is [kind, words, padded]: it has no body, or its body   *)
(* is the JSON null, an empty object, an object without "message", an      *)
(* object whose message is a number, or an object whose message is the     *)
(* text made of the given words, with blanks around it when padded.  A     *)
(* question is the sequence of its words.                                  *)

MaxRequests == 3


ChatRequests ==
    [kind : {"no_body", "null", "empty_object", "no_message", "number_message"},
     words : {<< >>}, padded : {FALSE}]
    \cup [kind : {"message"}, words : {<<"Budget", "tips">>, <<"hello">>, <<"ETF">>, << >>}, padded : BOOLEAN]

\* request.get_json(): the parsed body, or "raises" when the framework
\* rejects the request; a request without a body yields None in a release
\* of the framework that returns it silently and raises in the others
GetJsonOutcomes(rq) ==
    CASE rq.kind = "no_body" -> {"None", "raises"}
      [] rq.kind = "null"    -> {"None"}
      [] OTHER               -> {"dict"}

\* the keywords of Config.FINANCE_KEY_WORDS that the questions can meet
FINANCE_KEY_WORDS == {"budget", "stock", "ETF", "SIP"}


\* question.lower() contains one of the keywords
is_finance_related(question) ==
    LET Lower(w) == CASE w = "Budget" -> "budget"      \* str.lower() on a word
                      [] w = "ETF"    -> "etf"
                      [] OTHER        -> w
    IN  \E i \in 1..Len(question) : Lower(question[i]) \in FINANCE_KEY_WORDS

\* what model.generate_content yields: it raises, or response.text, a
\* sequence of pieces of text and markdown marks
ModelOutcomes ==
    {[raises |-> TRUE, text |-> << >>],
     [raises |-> FALSE, text |-> <<"Save", "first">>],
     [raises |-> FALSE, text |-> <<"**", "Tips", "**", "*", "Save">>]}


\* response.text.replace("**", "") and then "*" replaced by a bullet and a blank
FormatResponse(text) ==
    LET NotBold(x) == x # "**"
        kept == SelectSeq(text, NotBold)
    IN  [i \in 1..Len(kept) |-> IF kept[i] = "*" THEN "bullet " ELSE kept[i]]

Refusal == [kind |-> "refusal", text |-> << >>]
Apology == [kind |-> "apology", text |-> << >>]

\* ChatbotService.get_response
get_response(question, outcome) ==
    IF ~is_finance_related(question) THEN Refusal
    ELSE IF outcome.raises THEN Apology
    ELSE [kind |-> "answer", text |-> FormatResponse(outcome.text)]

\* session.get("chat_history", [])
HistoryOf(sess) == IF sess.has_chat_history THEN sess.chat_history ELSE << >>

NoReply == [kind |-> "none", text |-> << >>]

\* main.chat_response on request rq, with what get_json and the external
\* model yield: the answer and the session afterwards
chat_response(sess, rq, json, outcome) ==
    IF json = "raises"
    THEN [status |-> 500, error |-> "Internal server error", reply |-> NoReply,
          session |-> sess]
    ELSE IF json = "None" \/ rq.kind \in {"empty_object", "no_message"}
    THEN [status |-> 400, error |-> "Invalid request format", reply |-> NoReply,
          session |-> sess]
    \* data["message"].strip() on a number raises AttributeError
    ELSE IF rq.kind = "number_message"
    THEN [status |-> 500, error |-> "Internal server error", reply |-> NoReply,
          session |-> sess]
    ELSE LET user_message == rq.words      \* strip() drops the blanks around
         IN  IF user_message = << >>
             THEN [status |-> 400, error |-> "Message cannot be empty",
                   reply |-> NoReply, session |-> sess]
             ELSE LET bot_reply == get_response(user_message, outcome)
                  IN  [status |-> 200, error |-> "", reply |-> bot_reply,
                       session |->
                         [has_chat_history |-> TRUE,
                          chat_history |->
                            Append(HistoryOf(sess),
                                   [user |-> user_message, bot |-> bot_reply])]]

InitChat ==
    /\ NoBankCall
    /\ NoBudgetCall
    /\ NoSectorCall
    /\ NoServiceCalls
    /\ NoChat
    /\ pc = "chat"

\* GET /chatbot: the page creates the chat_history key when it is missing
ChatbotPage ==
    /\ pc = "chat"
    /\ ~session.has_chat_history
    /\ session' = [has_chat_history |-> TRUE, chat_history |-> << >>]
    /\ UNCHANGED <<BankVars, BudgetVars, SectorVars, ServiceVars, chat_log, pc>>

\* POST /chat
ChatResponse ==
    /\ pc = "chat"
    /\ Len(chat_log) < MaxRequests
    /\ \E rq \in ChatRequests :
       \E json \in GetJsonOutcomes(rq), outcome \in (IF rq.kind = "message" /\ rq.words # << >>
                        THEN ModelOutcomes
                        ELSE {[raises |-> TRUE, text |-> << >>]}) :
         LET answer == chat_response(session, rq, json, outcome)
         IN  /\ session' = answer.session
             /\ chat_log' = Append(chat_log,
                                   [request |-> rq, outcome |-> outcome,
                                    status |-> answer.status,
                                    reply |-> answer.reply])
    /\ UNCHANGED <<BankVars, BudgetVars, SectorVars, ServiceVars, pc>>

NextChat == ChatbotPage \/ ChatResponse

SpecChat == InitChat /\ [][NextChat]_vars

----------------------------------------------------------------------------
(* Properties *)

Last(s) == s[Len(s)]

\* C1: for every non-error metrics record the health score returned by
\* calculate_bank_health_score lies between 0 and 100 (max_score).
C1_HealthScoreWithin0And100 ==
    (pc = "done" /\ ~IsError(health_analysis)) =>
        /\ 0 <= health_analysis.health_score
        /\ health_analysis.health_score <= 100 * Scale

\* C2: for every income > 0 the three top-level amounts of the budget plan,
\* each rounded to cents, add up to the income.
C2_AmountsSumToIncome ==
    (pc = "created" /\ "budget_plan" \in DOMAIN budget) =>
        budget.budget_plan.essential_expenses.amount
        + budget.budget_plan.financial_goals.amount
        + budget.budget_plan.discretionary.amount = user_data.monthly_income.v

\* the user_data of a scorer call with monthly_income = 0 and well-formed
\* expenses and goals
ZeroIncomeCall ==
    /\ pc = "scored"
    /\ user_data.t = "dict"
    /\ user_data.monthly_income = Num(0)

GoalPointsOf(u) ==
    LET n == Get(u.financial_goals, EmptyGoals).len
    IN  IF n >= 3 THEN 20 ELSE IF n >= 1 THEN 15 ELSE 0

\* C3 as stated: with monthly_income = 0 the scorer raises no division error
\* and the savings-rate, debt-ratio and emergency-fund factors contribute 0
\* points each, so that only the goal count contributes to the score.
C3_ZeroIncomeAllRatioFactorsZero ==
    ZeroIncomeCall =>
        /\ ~(IsException(fin_health) /\ fin_health.exception = "ZeroDivisionError")
        /\ ~IsException(fin_health) => fin_health.score = GoalPointsOf(user_data)

\* C3 amended: with monthly_income = 0 the scorer raises no division error;
\* the savings-rate and emergency-fund factors contribute 0 points (lowest
\* tier) and the debt-ratio factor, whose ratio is 0 %, contributes its
\* highest tier, 20 points.
C3_ZeroIncomeRatiosAreZeroPercent ==
    ZeroIncomeCall =>
        /\ ~(IsException(fin_health) /\ fin_health.exception = "ZeroDivisionError")
        /\ ~IsException(fin_health) =>
              /\ fin_health.factors[2] = "Low savings rate"
              /\ fin_health.factors[3] = "Excellent debt management"
              /\ fin_health.factors[5] = "Insufficient emergency fund"
              /\ fin_health.score = 20 + GoalPointsOf(user_data)

C3_Witness ==
    /\ ZeroIncomeCall
    /\ user_data.current_expenses.t = "dict"
    /\ user_data.current_expenses.debt_payments = Num(3500000)
    /\ user_data.current_expenses.savings = Num(2000000)
    /\ ~IsException(fin_health)
    /\ fin_health.score = 40

\* the band table of the claim, for a score in 1/100 of a point
BandOf(s) ==
    IF s >= 8000 THEN "Excellent"
    ELSE IF s >= 6000 THEN "Good"
    ELSE IF s >= 4000 THEN "Fair"
    ELSE "Poor"

BankRecommendationOf(band) ==
    CASE band = "Excellent" -> "Strong Buy"
      [] band = "Good"      -> "Buy"
      [] band = "Fair"      -> "Hold"
      [] band = "Poor"      -> "Sell"

FinRecommendationOf(band) ==
    CASE band = "Excellent" -> "Excellent financial health"
      [] band = "Good"      -> "Good financial health"
      [] band = "Fair"      -> "Fair financial health"
      [] band = "Poor"      -> "Poor financial health"

\* C4: both scorers choose status and recommendation by the same band table
\* (>= 80 Excellent, >= 60 Good, >= 40 Fair, else Poor), and the
\* recommendation belongs to the band of the status.
C4_SameBandsInBothScorers ==
    /\ (pc = "done" /\ ~IsError(health_analysis)) =>
          /\ health_analysis.status = BandOf(health_analysis.health_score)
          /\ health_analysis.recommendation =
                BankRecommendationOf(BandOf(health_analysis.health_score))
    /\ (pc = "scored" /\ ~IsException(fin_health)) =>
          /\ fin_health.status = BandOf(fin_health.score * 100)
          /\ fin_health.recommendation =
                FinRecommendationOf(BandOf(fin_health.score * 100))

\* a bank scored 79.00 is Good, not Excellent
C4_Witness ==
    /\ pc = "done"
    /\ ~IsError(health_analysis)
    /\ health_analysis.health_score = 7900
    /\ health_analysis.status = "Good"
    /\ health_analysis.recommendation = "Buy"

\* C5: end to end, a supplier marketCap above 100B earns the large-cap
\* rationale (10 points), one above 10B the mid-cap rationale (5 points),
\* and only an unavailable or smaller market cap earns none.
C5_MarketCapCopiedAsNumber ==
    (pc = "done" /\ ~IsError(health_analysis)) =>
        Last(health_analysis.analysis) =
            (IF ticker.info.marketCap.t = "num" /\ ticker.info.marketCap.v > 100
             THEN "Large-cap bank"
             ELSE IF ticker.info.marketCap.t = "num" /\ ticker.info.marketCap.v > 10
             THEN "Mid-cap bank"
             ELSE "Small-cap bank")

\* the exact mean of the trailing min(w, available) entries, rounded
ShrunkMean(s, w) == RoundDiv(SumTail(s, Min(w, Len(s))), Min(w, Len(s)))

\* C6: on a roster bank every series of at least 2 bars yields a metrics
\* record whose ma_20, ma_50 and avg_volume are averages over the trailing
\* min(N, available) bars; only a series of fewer than 2 bars is an error.
C6_ShortSeriesYieldMetrics ==
    (pc = "fetched" /\ bank_name \in DOMAIN INDIAN_BANKS /\ ~ticker.raises) =>
        IF ticker.n >= 2
        THEN /\ ~IsError(bank_data)
             /\ bank_data.ma_20 = Num(ShrunkMean(History(ticker).Close, 20))
             /\ bank_data.ma_50 = Num(ShrunkMean(History(ticker).Close, 50))
             /\ bank_data.avg_volume =
                   SumTail(History(ticker).Volume, Min(20, ticker.n)) \div Min(20, ticker.n)
        ELSE IsError(bank_data)

\* the roster positions whose fetch gave a metrics record, not an error
Scored == {i \in 1..Len(Roster) : ~IsError(RosterFetch[i][supplied[i]])}

ScoreOf(i) == calculate_bank_health_score(RosterFetch[i][supplied[i]]).health_score

RECURSIVE SumScores(_)
SumScores(S) ==
    IF S = {} THEN 0
    ELSE LET i == CHOOSE x \in S : TRUE IN ScoreOf(i) + SumScores(S \ {i})

\* C7: over the 10-bank roster a bank whose fetch fails is excluded without
\* aborting the aggregation; total_banks_analyzed, the number of entries of
\* sector_overview and the number of banks scored coincide; the average is
\* the sum of those banks' scores over that count (reported to 2 decimals);
\* the error result is returned exactly when no bank was scored.
C7_OverviewCountsScoredBanks ==
    (pc = "overview") =>
        /\ Len(supplied) = Len(Roster)
        /\ IsError(sector_overview) <=> Scored = {}
        /\ ~IsError(sector_overview) =>
              /\ sector_overview.total_banks_analyzed = Cardinality(Scored)
              /\ DOMAIN sector_overview.sector_overview = {Roster[i] : i \in Scored}
              /\ sector_overview.average_sector_score =
                    RoundDiv(SumScores(Scored), Cardinality(Scored))

\* an aggregation over a roster in which some fetches failed and some did not
C7_Witness ==
    /\ pc = "overview"
    /\ ~IsError(sector_overview)
    /\ supplied[1].raises
    /\ supplied[10].raises
    /\ sector_overview.total_banks_analyzed = 8

\* the scores of the overview's entries, summed
RECURSIVE SumEntries(_, _)
SumEntries(data, B) ==
    IF B = {} THEN 0
    ELSE LET b == CHOOSE x \in B : TRUE
         IN  data[b].health_analysis.health_score + SumEntries(data, B \ {b})

OverviewTotal == SumEntries(sector_overview.sector_overview, DOMAIN sector_overview.sector_overview)
OverviewCount == Cardinality(DOMAIN sector_overview.sector_overview)

\* C8: the sector sentiment is Bullish when the average score is >= 70,
\* Neutral when it is >= 50 and < 70, Bearish when it is < 50.
C8_SentimentBands ==
    (pc = "overview" /\ ~IsError(sector_overview)) =>
        sector_overview.sector_sentiment =
            (IF OverviewTotal >= 7000 * OverviewCount THEN "Bullish"
             ELSE IF OverviewTotal >= 5000 * OverviewCount THEN "Neutral"
             ELSE "Bearish")

\* an average of exactly 69.99 is Neutral
C8_Witness ==
    /\ pc = "overview"
    /\ ~IsError(sector_overview)
    /\ OverviewCount = 2
    /\ OverviewTotal = 13998
    /\ sector_overview.sector_sentiment = "Neutral"

WarningLevels == {warning_indicators.warnings[k].level : k \in DOMAIN warning_indicators.warnings}

PoorCount ==
    Cardinality({b \in DOMAIN sector_overview.sector_overview :
                    sector_overview.sector_overview[b].health_analysis.health_score < 4000})

\* C9: when the overview is not an error, the warnings contain a High warning
\* exactly when the average sector score is < 50 and a Medium warning exactly
\* when more than 30 % of the scored banks have a score < 40.
C9_WarningsIndependent ==
    (pc = "warned" /\ ~IsError(sector_overview)) =>
        /\ ~IsError(warning_indicators)
        /\ WarningLevels \subseteq {"High", "Medium"}
        /\ Len(warning_indicators.warnings) = Cardinality(WarningLevels)
        /\ "High" \in WarningLevels <=> sector_overview.average_sector_score < 5000
        /\ "Medium" \in WarningLevels <=> 10 * PoorCount > 3 * OverviewCount

\* Medium without High: more than 30 % poor banks in a sector averaging >= 50
C9_Witness ==
    /\ pc = "warned"
    /\ ~IsError(warning_indicators)
    /\ WarningLevels = {"Medium"}
    /\ OverviewCount = 10

FiveKeys == {"budget_plan", "recommendations", "savings_challenges",
             "financial_health_score", "created_date"}

WellFormed(u) ==
    /\ u.t = "dict"
    /\ u.current_expenses.t \in {"dict", "absent"}
    /\ u.current_expenses.savings.t \in {"num", "absent"}
    /\ u.current_expenses.debt_payments.t \in {"num", "absent"}
    /\ u.current_expenses.emergency_fund.t \in {"num", "absent"}
    /\ u.financial_goals.t \in {"list", "absent"}
    /\ u.age.t \in {"num", "absent"}

\* C10: create_personalized_budget returns an error payload only when
\* monthly_income <= 0 or is missing, exactly the five plan keys when
\* monthly_income > 0 and the inputs are well-formed, never a mix of both,
\* and no exception escapes the call.
C10_ErrorOrFullPlan ==
    (pc = "created") =>
        /\ ~IsException(budget)
        /\ DOMAIN budget = {"error"} \/ DOMAIN budget = FiveKeys
        /\ (user_data.t = "dict" /\ Get(user_data.monthly_income, Num(0)).t = "num"
               /\ Get(user_data.monthly_income, Num(0)).v <= 0)
             => DOMAIN budget = {"error"}
        /\ (WellFormed(user_data) /\ user_data.monthly_income.t = "num"
               /\ user_data.monthly_income.v > 0)
             => DOMAIN budget = FiveKeys

\* a malformed request with a positive income: the failure is reported as
\* an error payload
C10_Witness ==
    /\ pc = "created"
    /\ user_data.t = "dict"
    /\ user_data.monthly_income = Num(10000000)
    /\ user_data.age = StrVal
    /\ budget = [error |-> "Failed to create budget plan"]

----------------------------------------------------------------------------
\* the arguments create_personalized_budget passes on, for a well-formed call
IncomeOf(u) == Get(u.monthly_income, Num(0)).v
AgeOf(u) == Get(u.age, Num(30)).v
HasPlan == pc = "created" /\ "budget_plan" \in DOMAIN budget

\* C11: in every plan the essential-expenses percentage is 55 exactly when
\* risk_tolerance is "conservative" and 50 otherwise, the goals percentage is
\* 25 exactly when age < 30 and 20 otherwise (age 30 gives 20), and the two
\* amounts are those percentages of the income, rounded to the cent.  For an
\* income of 100000, conservative, age 25 the amounts are 55000, 25000 and
\* 20000, the last one 20 percent.
C11_AllocationPercentages ==
    HasPlan =>
      LET income == IncomeOf(user_data)
          age    == AgeOf(user_data)
          plan   == budget.budget_plan
          pe     == plan.essential_expenses.percentage
          pg     == plan.financial_goals.percentage
      IN  /\ (pe = 55 * Scale) <=> (user_data.risk_tolerance = "conservative")
          /\ (pe = 50 * Scale) <=> (user_data.risk_tolerance # "conservative")
          /\ (pg = 25 * Scale) <=> (age < 30)
          /\ (pg = 20 * Scale) <=> (age >= 30)
          /\ plan.essential_expenses.amount = RoundMulDiv(income, pe, 100 * Scale)
          /\ plan.financial_goals.amount = RoundMulDiv(income, pg, 100 * Scale)
          /\ (income = 10000000 /\ user_data.risk_tolerance = "conservative" /\ age = 25)
               => /\ plan.essential_expenses.amount = 5500000
                  /\ plan.financial_goals.amount = 2500000
                  /\ plan.discretionary.amount = 2000000
                  /\ plan.discretionary.percentage = 20 * Scale

\* a plan for age exactly 30, which falls in the 20 percent group
C11_Witness ==
    /\ HasPlan
    /\ user_data.age = Num(30)
    /\ user_data.risk_tolerance = "conservative"
    /\ budget.budget_plan.financial_goals.percentage = 20 * Scale
    /\ budget.budget_plan.essential_expenses.percentage = 55 * Scale

----------------------------------------------------------------------------

\* C12 as stated: once the planner has produced a plan, there are an income
\* above zero, a risk tolerance and an age for which
\* _calculate_budget_allocation returns a discretionary amount below zero.
C12_SomeAllocationIsNegative ==
    HasPlan =>
    \E income \in {i.v : i \in {x \in Incomes : x.t = "num" /\ x.v > 0}},
       risk_tolerance \in {"conservative", "moderate", "aggressive"},
       age \in {18, 25, 29, 30, 39, 40, 45, 65, 90} :
        _calculate_budget_allocation(income, risk_tolerance, age).discretionary.amount < 0

\* C12: the two allocated shares never exceed 55 + 25 = 80 percent, so in
\* every plan the discretionary amount is what is left of the income after
\* the two shares, is never below zero, and is between 20 and 30 percent of
\* the income.
C12_DiscretionaryNeverNegative ==
    HasPlan =>
      LET income == IncomeOf(user_data)
          plan   == budget.budget_plan
          pe     == plan.essential_expenses.percentage
          pg     == plan.financial_goals.percentage
          d      == plan.discretionary
      IN  /\ pe + pg <= 80 * Scale
          /\ d.amount >= 0
          /\ d.amount = RoundMulDiv(income, 100 * Scale - pe - pg, 100 * Scale)
          /\ d.percentage = 100 * Scale - pe - pg
          /\ d.percentage >= 20 * Scale /\ d.percentage <= 30 * Scale

\* the tightest case: conservative and under 30, on the smallest income
C12_Witness ==
    /\ HasPlan
    /\ user_data.risk_tolerance = "conservative"
    /\ AgeOf(user_data) < 30
    /\ IncomeOf(user_data) = 3
    /\ budget.budget_plan.discretionary.percentage = 20 * Scale
    /\ budget.budget_plan.discretionary.amount = 1

----------------------------------------------------------------------------
----------------------------------------------------------------------------
\* C14: whenever the financial-health scorer returns, its score is the sum
\* of five factors: income above 50000 gives 20, above 30000 gives 15, above
\* 15000 gives 10; savings rate from 20 gives 25, from 15 gives 20, from 10
\* gives 15; debt ratio up to 10 gives 20, up to 20 gives 15, up to 30 gives
\* 10; three goals or more give 20, one or two give 15; emergency months from
\* 6 give 15, from 3 give 10; every other case gives 0.  Hence the score is
\* between 0 and 100.
C14_ScoreIsSumOfFiveFactors ==
    (pc = "scored" /\ ~IsException(fin_health)) =>
      LET income   == IncomeOf(user_data)
          expenses == Get(user_data.current_expenses, EmptyExpenses)
          savings  == IF income > 0 THEN Get(expenses.savings, Num(0)).v ELSE 0
          debt     == IF income > 0 THEN Get(expenses.debt_payments, Num(0)).v ELSE 0
          fund     == IF income > 0 THEN Get(expenses.emergency_fund, Num(0)).v ELSE 0
          unit     == IF income > 0 THEN income ELSE 1
          goals    == Get(user_data.financial_goals, EmptyGoals).len
          fi == IF income > 5000000 THEN 20 ELSE IF income > 3000000 THEN 15
                ELSE IF income > 1500000 THEN 10 ELSE 0
          fs == IF savings * 100 >= 20 * unit THEN 25
                ELSE IF savings * 100 >= 15 * unit THEN 20
                ELSE IF savings * 100 >= 10 * unit THEN 15 ELSE 0
          fd == IF debt * 100 <= 10 * unit THEN 20
                ELSE IF debt * 100 <= 20 * unit THEN 15
                ELSE IF debt * 100 <= 30 * unit THEN 10 ELSE 0
          fg == IF goals >= 3 THEN 20 ELSE IF goals >= 1 THEN 15 ELSE 0
          fe == IF fund >= 6 * unit THEN 15 ELSE IF fund >= 3 * unit THEN 10 ELSE 0
      IN  /\ fin_health.score = fi + fs + fd + fg + fe
          /\ 0 <= fin_health.score /\ fin_health.score <= 100
          /\ fin_health.max_score = 100

\* every factor at its maximum: 20 + 25 + 20 + 20 + 15
C14_Witness ==
    /\ pc = "scored" /\ ~IsException(fin_health)
    /\ fin_health.score = 100
    /\ Len(fin_health.factors) = 5

----------------------------------------------------------------------------
\* C15: in every plan the weekly breakdown of the 52-week challenge has
\* exactly 52 entries, entry k is week k with amount k and cumulative
\* k * (k + 1) / 2, the last cumulative is 1378, and it equals the
\* challenge's total_savings, whatever the income.
C15_FiftyTwoWeekBreakdown ==
    HasPlan =>
      LET challenge == budget.savings_challenges[1]
          breakdown == challenge.weekly_breakdown
      IN  /\ challenge.challenge_id = "52_week"
          /\ DOMAIN breakdown = 1..52
          /\ \A k \in 1..52 :
                /\ breakdown[k].week = k
                /\ breakdown[k].amount = k
                /\ 2 * breakdown[k].cumulative = k * (k + 1)
          /\ breakdown[52].cumulative = 1378
          /\ challenge.total_savings = breakdown[52].cumulative

\* plans for two different incomes carry the breakdown; this is the larger one
C15_Witness ==
    /\ HasPlan
    /\ IncomeOf(user_data) = 10000000
    /\ Len(budget.savings_challenges[1].weekly_breakdown) = 52
    /\ budget.savings_challenges[1].weekly_breakdown[52].cumulative = 1378

----------------------------------------------------------------------------
\* C16: when the second-to-last close of the fetched series is 0,
\* get_bank_stock_data returns an error result, so that no record with an
\* infinite or undefined price_change_pct reaches the scorer.
C16_ZeroPreviousCloseIsError ==
    (/\ pc \in {"fetched", "done"}
     /\ bank_name \in DOMAIN INDIAN_BANKS
     /\ ~ticker.raises
     /\ ticker.n >= 2
     /\ History(ticker).Close[ticker.n - 1] = 0)
    => /\ IsError(bank_data)
       /\ pc = "done" => IsError(health_analysis)

----------------------------------------------------------------------------
\* C17: in the bank analysis request, a name outside the roster gets the
\* "not found" error whatever the supplier would have answered (the supplier
\* is not consulted); health_analysis is an error result exactly when
\* bank_data is one, with the same message; and a failing supplier gives
\* error results from both calls, never an exception.
C17_BankApiErrors ==
    /\ (pc \in {"fetched", "done"} /\ bank_name \notin DOMAIN INDIAN_BANKS)
         => bank_data = [error |-> [msg |-> "not found in database", bank |-> bank_name]]
    /\ (pc \in {"fetched", "done"} /\ bank_name \in DOMAIN INDIAN_BANKS /\ ticker.raises)
         => /\ IsError(bank_data)
            /\ bank_data.error.msg = "Failed to fetch data"
    /\ pc = "done"
         => /\ IsError(health_analysis) <=> IsError(bank_data)
            /\ IsError(bank_data) => health_analysis.error = bank_data.error
            /\ ~IsError(bank_data) => "health_score" \in DOMAIN health_analysis

\* an unknown name asked while the supplier is failing: the answer is still
\* "not found", and the scorer hands the same error on
C17_Witness ==
    /\ pc = "done"
    /\ bank_name \notin DOMAIN INDIAN_BANKS
    /\ ticker.raises
    /\ bank_data.error.msg = "not found in database"
    /\ health_analysis = bank_data

----------------------------------------------------------------------------
\* C18: in every plan the recommendations are, in this order, Emergency Fund
\* (always, with target 6 times the income), Debt Management exactly when
\* debt_payments > 0.2 * income, Investments exactly when age < 40, Savings
\* exactly when savings / income * 100 < 20, and Insurance (always); so the
\* list has 2 to 5 entries, begins with Emergency Fund and ends with
\* Insurance.
C18_RecommendationsInOrder ==
    HasPlan =>
      LET income   == IncomeOf(user_data)
          age      == AgeOf(user_data)
          expenses == Get(user_data.current_expenses, EmptyExpenses)
          debt     == Get(expenses.debt_payments, Num(0)).v
          savings  == Get(expenses.savings, Num(0)).v
          recs     == budget.recommendations
          cats     == [i \in 1..Len(recs) |-> recs[i].category]
          order    == <<"Emergency Fund", "Debt Management", "Investments",
                        "Savings", "Insurance">>
          fires    == [c \in {order[i] : i \in 1..5} |->
                        CASE c = "Debt Management" -> 5 * debt > income
                          [] c = "Investments"     -> age < 40
                          [] c = "Savings"         -> 5 * savings < income
                          [] OTHER                 -> TRUE]
          Keep(c)  == fires[c]
      IN  /\ cats = SelectSeq(order, Keep)
          /\ recs[1].target = 6 * income
          /\ Len(recs) >= 2 /\ Len(recs) <= 5
          /\ cats[1] = "Emergency Fund"
          /\ cats[Len(cats)] = "Insurance"

\* the shortest list: age 40, no debt above a fifth, savings at 20 percent
C18_Witness ==
    /\ HasPlan
    /\ AgeOf(user_data) = 40
    /\ Len(budget.recommendations) = 2
    /\ budget.recommendations[1].category = "Emergency Fund"
    /\ budget.recommendations[2].category = "Insurance"

----------------------------------------------------------------------------
----------------------------------------------------------------------------
\* C20: in every plan the savings challenges are exactly three, in the order
\* 52_week, no_spend, round_up; the first is the same for every income, the
\* no-spend estimate is 0.25 times the income and the round-up estimate 0.05
\* times the income, each rounded to the cent; the whole list is determined
\* by the income alone, so a call with the same income and other goals gets
\* the same list.
C20_ThreeChallengesFromIncomeOnly ==
    HasPlan =>
      LET income     == IncomeOf(user_data)
          challenges == budget.savings_challenges
      IN  /\ Len(challenges) = 3
          /\ challenges[1].challenge_id = "52_week"
          /\ challenges[1].total_savings = 1378
          /\ challenges[1].weekly_breakdown
               = [k \in 1..52 |-> [week |-> k, amount |-> k,
                                   cumulative |-> (k * (k + 1)) \div 2]]
          /\ challenges[2] = [challenge_id |-> "no_spend",
                              potential_savings |-> RoundMulDiv(income, 25, 100)]
          /\ challenges[3] = [challenge_id |-> "round_up",
                              potential_savings |-> RoundMulDiv(income, 5, 100)]
          /\ \A n \in 0..MaxGoals :
                LET other == [user_data EXCEPT !.financial_goals = [t |-> "list", len |-> n]]
                IN  create_personalized_budget(other).savings_challenges = challenges

\* an income of 100.03 with goals: the estimates are 25.01 and 5.00
C20_Witness ==
    /\ HasPlan
    /\ IncomeOf(user_data) = 10003
    /\ Get(user_data.financial_goals, EmptyGoals).len = MaxGoals
    /\ budget.savings_challenges[2].potential_savings = 2501
    /\ budget.savings_challenges[3].potential_savings = 500

----------------------------------------------------------------------------
\* C21: get_savings_tips returns the three tips of the profile for beginner,
\* intermediate and advanced, and a fallback list without raising for any
\* other profile; so /api/savings-tips/<profile> answers {tips: [...]} with
\* status 200 and never the 500 error payload.
C21_SavingsTipsAlwaysAnswered ==
    \A i \in 1..Len(call_log) :
        call_log[i].op = "get_savings_tips" =>
          LET profile == call_log[i].arg
              result  == call_log[i].result
              answer  == api_savings_tips(profile)
          IN  /\ ~IsException(result)
              /\ Len(result.returned) = 3
              /\ answer.status = 200
              /\ "tips" \in DOMAIN answer.body

----------------------------------------------------------------------------
\* C22: for every non-error metrics record the analysis list of
\* calculate_bank_health_score has exactly eight strings, one per factor, in
\* the order price trend, volatility, moving average, P/E, P/B, dividend
\* yield, volume, market cap, also when pe_ratio or pb_ratio is unavailable.
C22_OneRationalePerFactor ==
    (pc = "done" /\ ~IsError(bank_data)) =>
      LET analysis == health_analysis.analysis
          factor   ==
            <<{"Positive price performance", "Negative price performance"},
              {"Low volatility", "Moderate volatility", "High volatility"},
              {"Strong uptrend", "Moderate trend", "Downtrend"},
              {"Reasonable P/E ratio", "Undervalued P/E ratio", "High P/E ratio"},
              {"Good P/B ratio", "High P/B ratio"},
              {"High dividend yield", "Moderate dividend yield", "Low dividend yield"},
              {"High trading volume", "Above average trading volume",
               "Below average trading volume"},
              {"Large-cap bank", "Mid-cap bank", "Small-cap bank"}>>
      IN  /\ Len(analysis) = 8
          /\ \A i \in 1..8 : analysis[i] \in factor[i]

----------------------------------------------------------------------------
RECURSIVE SumOver(_, _)
\* the sum of the fields S of the record r
SumOver(r, S) ==
    IF S = {} THEN 0
    ELSE LET f == CHOOSE x \in S : TRUE IN r[f] + SumOver(r, S \ {f})

\* distance, in cents, between a bucket's amount and the sum of its breakdown
BucketDrift(bucket) == Abs(SumOver(bucket.breakdown, DOMAIN bucket.breakdown) - bucket.amount)

BucketsOf(plan) == {plan.essential_expenses, plan.financial_goals, plan.discretionary}

\* C23 as stated: in every plan, for each of the three buckets, the sum of the
\* rounded breakdown amounts differs from the bucket's amount by at most 0.01
\* times the bucket's amount.
C23_DriftWithinOnePercent ==
    HasPlan =>
      \A bucket \in BucketsOf(budget.budget_plan) :
          100 * BucketDrift(bucket) <= bucket.amount

\* C23: in every plan, for each of the three buckets, the sum of the rounded
\* breakdown amounts differs from the bucket's amount by at most two cents,
\* and so by at most 0.01 times the bucket's amount whenever that amount is
\* at least 2.00.
C23_DriftWithinTwoCents ==
    HasPlan =>
      \A bucket \in BucketsOf(budget.budget_plan) :
          /\ BucketDrift(bucket) <= 2
          /\ bucket.amount >= 200 => 100 * BucketDrift(bucket) <= bucket.amount

\* an income of 0.65: the discretionary amount is 0.20 and its four parts
\* add up to 0.18
C23_Witness ==
    /\ HasPlan
    /\ IncomeOf(user_data) = 65
    /\ budget.budget_plan.discretionary.amount = 20
    /\ BucketDrift(budget.budget_plan.discretionary) = 2

----------------------------------------------------------------------------
\* C24: when get_early_warning_indicators has answered from an overview that
\* is not an error, its warnings contain the High warning exactly when the
\* overview's sector_sentiment is "Bearish".
C24_HighWarningIffBearish ==
    (pc = "warned" /\ ~IsError(sector_overview)) =>
        ("High" \in WarningLevels <=> sector_overview.sector_sentiment = "Bearish")

----------------------------------------------------------------------------
\* C25: on one /bank-analysis request the rendered warning indicators agree
\* with the rendered sector overview: both are errors or neither is, the
\* sector_health_score equals the overview's average_sector_score, and the
\* warnings are the ones that follow from the overview's per-bank scores,
\* whatever the supplier answers to each of the fetches.
C25_WarningsMatchRenderedOverview ==
    pc = "rendered" =>
        /\ IsError(warning_indicators) <=> IsError(route_overview)
        /\ ~IsError(route_overview) =>
              /\ warning_indicators.sector_health_score
                   = route_overview.average_sector_score
              /\ warning_indicators = EarlyWarningResult(route_overview)

----------------------------------------------------------------------------


\* C26: every /chat request with a message that is not blank appends
\* exactly one {user, bot} entry at the end of the session's history and
\* leaves the earlier entries as they were; the bot part is the fixed refusal
\* when the message is not finance-related, whatever the external model
\* would do, and the apology when the model fails.  A request with no body,
\* no message field or a blank message is answered with 400 and leaves the
\* history unchanged.
C26_ChatHistoryStep ==
    [][chat_log' # chat_log =>
         LET e      == chat_log'[Len(chat_log')]
             rq     == e.request
             before == HistoryOf(session)
             after  == HistoryOf(session')
             ValidMessage == rq.kind = "message" /\ rq.words # << >>
             Rejected ==
                 \/ rq.kind \in {"no_body", "null", "empty_object", "no_message"}
                 \/ rq.kind = "message" /\ rq.words = << >>
         IN  /\ ValidMessage =>
                   /\ e.status = 200
                   /\ after = Append(before, [user |-> rq.words, bot |-> e.reply])
                   /\ ~is_finance_related(rq.words) => e.reply = Refusal
                   /\ (is_finance_related(rq.words) /\ e.outcome.raises)
                        => e.reply = Apology
             /\ Rejected =>
                   /\ e.status = 400
                   /\ after = before]_vars

====
